---- MODULE Spec2Model ----
(***************************************************************************)
(* Model of notebooks/utils/functions.py: clean_uber_data(df, LONG_MIN,    *)
(* LONG_MAX, LAT_MIN, LAT_MAX).                                            *)
(*                                                                         *)
(* A DataFrame is a record [columns, rows]: the set of its column names    *)
(* and the sequence of its rows in frame order.  A row is a function from  *)
(* the column names, plus "index" (the pandas index label), to cell values.*)
(* Float cells are integers with the sentinel NaN for a missing value;     *)
(* every comparison goes through lt/gt/le, which are false on NaN as the   *)
(* IEEE comparisons of pandas are.  fare_amount is counted in cents.       *)
(* A pickup_datetime cell is a record [tag, text, hour]: a raw string      *)
(* (tag "str"), a parsed Timestamp (tag "ts") or NaT (tag "NaT").          *)
(***************************************************************************)
EXTENDS Integers, Sequences, FiniteSets, TLC

\* Largest number of rows of the input dataset.
MaxRows == 2

\* Missing float value (numpy.nan); never equal to a value of the data.
NaN == -9999

Required ==
  {"pickup_datetime", "pickup_latitude", "pickup_longitude",
   "dropoff_latitude", "dropoff_longitude", "fare_amount", "passenger_count"}

NoFrame == [columns |-> {}, rows |-> <<>>]

NoResult == [cleaned |-> NoFrame, dropped |-> NoFrame]

----------------------------------------------------------------------------
(* Cell-level semantics of the pandas operations the function uses.        *)

isna(x) == x = NaN

lt(a, b) == (~isna(a)) /\ (~isna(b)) /\ a < b

gt(a, b) == (~isna(a)) /\ (~isna(b)) /\ a > b

le(a, b) == (~isna(a)) /\ (~isna(b)) /\ a <= b

Str(t) == [tag |-> "str", text |-> t, hour |-> NaN]

NaT == [tag |-> "NaT", text |-> "", hour |-> NaN]

\* The hour a timestamp text spells, NaN when the text is no timestamp.
ParsedHour(t) ==
  CASE t = "2015-05-07 23:52:06" -> 23
    [] t = "2009-07-17 00:04:56" -> 0
    [] OTHER -> NaN

\* pd.to_datetime(cell, errors='coerce'): a string that spells a timestamp
\* becomes a Timestamp, any other string becomes NaT, and a cell that is
\* already a Timestamp or NaT is returned as it is.
to_datetime(v) ==
  IF v.tag = "str"
    THEN IF isna(ParsedHour(v.text))
           THEN NaT
           ELSE [tag |-> "ts", text |-> v.text, hour |-> ParsedHour(v.text)]
    ELSE v

\* Series.dt.hour: the hour of a Timestamp, NaN for NaT.
dt_hour(v) == IF v.tag = "ts" THEN v.hour ELSE NaN

Abs(x) == IF x < 0 THEN -x ELSE x

\* geodesic((plat, plon), (dlat, dlon)).miles on whole-degree points away
\* from the poles and the antimeridian.  The ellipsoidal length is replaced
\* by a rectilinear one (69 miles per degree of latitude, 53 per degree of
\* longitude): like the geodesic it is 0 exactly when the two points
\* coincide and positive otherwise.
geodesic_miles(plat, plon, dlat, dlon) ==
  69 * Abs(plat - dlat) + 53 * Abs(plon - dlon)

----------------------------------------------------------------------------
(* Frame-level helpers.                                                    *)

\* frame[col] = value: row r with column c set to v (added when new).
WithCol(r, c, v) ==
  [k \in (DOMAIN r) \cup {c} |-> IF k = c THEN v ELSE r[k]]

\* BoolIndex without the negation of df[~m]: keeps the masked rows whatever
\* keep says.
BoolIndexNoNegation(rows, m, keep) ==
  LET F[i \in 0..Len(rows)] ==
        IF i = 0 THEN <<>>
        ELSE IF m[i] THEN Append(F[i - 1], rows[i]) ELSE F[i - 1]
  IN F[Len(rows)]

\* frame[m]: the rows whose mask entry equals keep, in frame order.
BoolIndex(rows, m, keep) ==
  LET F[i \in 0..Len(rows)] ==
        IF i = 0 THEN <<>>
        ELSE IF m[i] = keep THEN Append(F[i - 1], rows[i]) ELSE F[i - 1]
  IN F[Len(rows)]

\* Concat with its two frames in the other order: pd.concat([b, a]).
ConcatReversed(a, b) ==
  LET cols == a.columns \cup b.columns
      Fill(r) == [k \in cols \cup {"index"} |->
                    IF k \in DOMAIN r THEN r[k] ELSE NaN]
  IN [columns |-> cols,
      rows |-> [i \in 1..Len(b.rows) |-> Fill(b.rows[i])]
               \o [i \in 1..Len(a.rows) |-> Fill(a.rows[i])]]

\* pd.concat([a, b]): the rows of a then the rows of b, over the union of
\* the columns; a cell of a column the row's frame lacks is NaN.
Concat(a, b) ==
  LET cols == a.columns \cup b.columns
      Fill(r) == [k \in cols \cup {"index"} |->
                    IF k \in DOMAIN r THEN r[k] ELSE NaN]
  IN [columns |-> cols,
      rows |-> [i \in 1..Len(a.rows) |-> Fill(a.rows[i])]
               \o [i \in 1..Len(b.rows) |-> Fill(b.rows[i])]]

----------------------------------------------------------------------------
(* The row predicates of lines 29-62.                                      *)

condition_invalid_datetime(r) == r["pickup_datetime"].tag = "NaT"

condition_out_of_range(r, b) ==
  \/ lt(r["pickup_longitude"], b.LONG_MIN)
  \/ gt(r["pickup_longitude"], b.LONG_MAX)
  \/ lt(r["pickup_latitude"], b.LAT_MIN)
  \/ gt(r["pickup_latitude"], b.LAT_MAX)
  \/ lt(r["dropoff_longitude"], b.LONG_MIN)
  \/ gt(r["dropoff_longitude"], b.LONG_MAX)
  \/ lt(r["dropoff_latitude"], b.LAT_MIN)
  \/ gt(r["dropoff_latitude"], b.LAT_MAX)

condition_invalid_fare(r) == le(r["fare_amount"], 0)

condition_nan_coordinates(r) ==
  \/ isna(r["pickup_longitude"])
  \/ isna(r["pickup_latitude"])
  \/ isna(r["dropoff_longitude"])
  \/ isna(r["dropoff_latitude"])

condition_zero_passenger(r) == le(r["passenger_count"], 0)

condition_high_passenger_count(r) == gt(r["passenger_count"], 10)

initial_condition_combined(r, b) ==
  \/ condition_out_of_range(r, b)
  \/ condition_invalid_fare(r)
  \/ condition_nan_coordinates(r)
  \/ condition_zero_passenger(r)
  \/ condition_invalid_datetime(r)
  \/ condition_high_passenger_count(r)

\* The distance predicate with < in place of <=.
condition_negative_distance(r) == lt(r["distance_miles"], 0)

condition_invalid_distance(r) == le(r["distance_miles"], 0)

----------------------------------------------------------------------------
(* Input datasets and bounds.                                              *)

\* A trip inside both boxes with every field valid: pickup (40, -74),
\* dropoff (41, -74), fare 0.01, one passenger.
Nominal ==
  [pickup_datetime |-> Str("2015-05-07 23:52:06"),
   pickup_latitude |-> 40, pickup_longitude |-> -74,
   dropoff_latitude |-> 41, dropoff_longitude |-> -74,
   fare_amount |-> 1, passenger_count |-> 1]

DatetimeCells ==
  {Str("2015-05-07 23:52:06"), Str("2009-07-17 00:04:56"), Str("not-a-date")}

LatCells == {NaN, 39, 40, 41, 42}

LonCells == {NaN, -75, -74, -73, -72}

FareCells == {NaN, -1, 0, 1}

PassengerCells == {0, 1, 10, 11}

CellsOf(c) ==
  CASE c = "pickup_datetime" -> DatetimeCells
    [] c \in {"pickup_latitude", "dropoff_latitude"} -> LatCells
    [] c \in {"pickup_longitude", "dropoff_longitude"} -> LonCells
    [] c = "fare_amount" -> FareCells
    [] c = "passenger_count" -> PassengerCells

\* Rows that differ from Nominal in one column.
OneOff ==
  {[Nominal EXCEPT ![c] = v] : <<c, v>> \in
     UNION {{<<c, v>> : v \in CellsOf(c)} : c \in Required}}

\* Rows that fail several predicates at once.
ManyOff ==
  {[Nominal EXCEPT !["pickup_datetime"] = Str("not-a-date"),
                   !["fare_amount"] = 0],
   [Nominal EXCEPT !["passenger_count"] = 11,
                   !["pickup_latitude"] = NaN,
                   !["dropoff_longitude"] = -72],
   [Nominal EXCEPT !["dropoff_latitude"] = 40,
                   !["fare_amount"] = 0],
   [Nominal EXCEPT !["dropoff_latitude"] = 40,
                   !["fare_amount"] = NaN]}

RowDomain == OneOff \cup ManyOff

Boxes ==
  {[LONG_MIN |-> -74, LONG_MAX |-> -73, LAT_MIN |-> 40, LAT_MAX |-> 41],
   [LONG_MIN |-> -75, LONG_MAX |-> -73, LAT_MIN |-> 39, LAT_MAX |-> 41]}

\* The frame a loader hands over: the chosen rows under a RangeIndex,
\* without the columns in absent.
LoadedFrame(data, absent) ==
  [columns |-> Required \ absent,
   rows |-> [i \in 1..Len(data) |->
               [k \in (Required \ absent) \cup {"index"} |->
                  IF k = "index" THEN i - 1 ELSE data[i][k]]]]

----------------------------------------------------------------------------
VARIABLES
  input,       \* the caller's dataset as it was when the call was made
  bounds,      \* LONG_MIN, LONG_MAX, LAT_MIN, LAT_MAX of the call
  df,          \* the caller's dataset object (parameter df)
  mask,        \* initial_condition_combined, one entry per row of df
  dropped,     \* local dropped
  df_cleaned,  \* local df_cleaned
  pc,          \* line the call is at, or "done" / "error"
  err,         \* exception that ended the call, "" if none
  ret,         \* the returned (df_cleaned, dropped)
  call,        \* 1: the call on the input; 2: the call on its cleaned set
  first        \* what call 1 returned

vars ==
  <<input, bounds, df, mask, dropped, df_cleaned, pc, err, ret, call, first>>

Init ==
  \E n \in 0..MaxRows :
    \E data \in [1..n -> RowDomain] :
      \E absent \in {{}} \cup {{c} : c \in Required} :
        \E b \in Boxes :
          /\ input = LoadedFrame(data, absent)
          /\ df = LoadedFrame(data, absent)
          /\ bounds = b
          /\ mask = <<>>
          /\ dropped = NoFrame
          /\ df_cleaned = NoFrame
          /\ pc = "L25"
          /\ err = ""
          /\ ret = NoResult
          /\ call = 1
          /\ first = NoResult

\* An exception leaves the function: nothing is returned.
Raise(e) ==
  /\ pc' = "error"
  /\ err' = e

\* Lines 25-26: df['pickup_datetime'] = pd.to_datetime(..., errors='coerce')
\* and df['pickup_hour'] = df['pickup_datetime'].dt.hour, both assigned on
\* the caller's object.  df['pickup_datetime'] raises KeyError when the
\* column is absent.
ParseDatetime ==
  /\ pc = "L25"
  /\ IF "pickup_datetime" \notin df.columns
       THEN /\ Raise("KeyError")
            /\ UNCHANGED df
       ELSE /\ df' = [columns |-> df.columns \cup {"pickup_hour"},
                      rows |-> [i \in 1..Len(df.rows) |->
                        LET parsed == to_datetime(df.rows[i]["pickup_datetime"])
                        IN WithCol(WithCol(df.rows[i], "pickup_datetime", parsed),
                                   "pickup_hour", dt_hour(parsed))]]
            /\ pc' = "L29"
            /\ UNCHANGED err
  /\ UNCHANGED <<input, bounds, mask, dropped, df_cleaned, ret, call, first>>

\* Lines 29-62: the six masks and their disjunction.  Reading an absent
\* column raises KeyError.
BuildMasks ==
  /\ pc = "L29"
  /\ IF ~(Required \subseteq df.columns)
       THEN /\ Raise("KeyError")
            /\ UNCHANGED mask
       ELSE /\ mask' = [i \in 1..Len(df.rows) |->
                          initial_condition_combined(df.rows[i], bounds)]
            /\ pc' = "L65"
            /\ UNCHANGED err
  /\ UNCHANGED <<input, bounds, df, dropped, df_cleaned, ret, call, first>>

\* Lines 65-68: dropped = df[mask].copy(); df_cleaned = df[~mask].copy().
Split ==
  /\ pc = "L65"
  /\ dropped' = [columns |-> df.columns, rows |-> BoolIndex(df.rows, mask, TRUE)]
  /\ df_cleaned' = [columns |-> df.columns,
                    rows |-> BoolIndex(df.rows, mask, FALSE)]
  /\ pc' = "L71"
  /\ UNCHANGED <<input, bounds, df, mask, err, ret, call, first>>

\* Lines 71-74: df_cleaned['distance_miles'] = df_cleaned.apply(..., axis=1).
\* On a frame without rows DataFrame.apply does not call the lambda on any
\* row and returns a copy of the empty frame, a DataFrame of all its columns,
\* and assigning that to the single column raises ValueError.
Distance ==
  /\ pc = "L71"
  /\ IF df_cleaned.rows = <<>>
       THEN /\ Raise("ValueError")
            /\ UNCHANGED df_cleaned
       ELSE /\ df_cleaned' =
                 [columns |-> df_cleaned.columns \cup {"distance_miles"},
                  rows |-> [i \in 1..Len(df_cleaned.rows) |->
                    LET r == df_cleaned.rows[i]
                    IN WithCol(r, "distance_miles",
                         geodesic_miles(r["pickup_latitude"],
                                        r["pickup_longitude"],
                                        r["dropoff_latitude"],
                                        r["dropoff_longitude"]))]]
            /\ pc' = "L77"
            /\ UNCHANGED err
  /\ UNCHANGED <<input, bounds, df, mask, dropped, ret, call, first>>

\* Lines 77-83: rows with distance_miles <= 0 are concatenated after the
\* rows already in dropped and removed from df_cleaned.
FilterDistance ==
  /\ pc = "L77"
  /\ LET m == [i \in 1..Len(df_cleaned.rows) |->
                 condition_invalid_distance(df_cleaned.rows[i])]
     IN /\ dropped' =
             Concat(dropped, [columns |-> df_cleaned.columns,
                              rows |-> BoolIndex(df_cleaned.rows, m, TRUE)])
        /\ df_cleaned' = [columns |-> df_cleaned.columns,
                          rows |-> BoolIndex(df_cleaned.rows, m, FALSE)]
  /\ pc' = "L85"
  /\ UNCHANGED <<input, bounds, df, mask, err, ret, call, first>>

\* Line 85: return df_cleaned, dropped.
Return ==
  /\ pc = "L85"
  /\ ret' = [cleaned |-> df_cleaned, dropped |-> dropped]
  /\ pc' = "done"
  /\ UNCHANGED <<input, bounds, df, mask, dropped, df_cleaned, err, call, first>>

\* The caller passes the cleaned set it got back to clean_uber_data again,
\* with the same bounds.
Rerun ==
  /\ pc = "done"
  /\ call = 1
  /\ first' = ret
  /\ input' = ret.cleaned
  /\ df' = ret.cleaned
  /\ call' = 2
  /\ mask' = <<>>
  /\ dropped' = NoFrame
  /\ df_cleaned' = NoFrame
  /\ ret' = NoResult
  /\ pc' = "L25"
  /\ UNCHANGED <<bounds, err>>

Next ==
  \/ ParseDatetime
  \/ BuildMasks
  \/ Split
  \/ Distance
  \/ FilterDistance
  \/ Return
  \/ Rerun

Spec == Init /\ [][Next]_vars

----------------------------------------------------------------------------
(* Vocabulary of the properties.                                           *)

Returned == pc = "done"

Finished == pc \in {"done", "error"}

FullSchema == Required \subseteq input.columns

\* Row r of the input as lines 25-26 leave it.
Parsed(r) ==
  WithCol(r, "pickup_datetime", to_datetime(r["pickup_datetime"]))

\* r fails one of the six predicates of the first stage.
FailsStage1(r) == initial_condition_combined(Parsed(r), bounds)

SamePoint(r) ==
  /\ r["pickup_latitude"] = r["dropoff_latitude"]
  /\ r["pickup_longitude"] = r["dropoff_longitude"]

TripMiles(r) ==
  geodesic_miles(r["pickup_latitude"], r["pickup_longitude"],
                 r["dropoff_latitude"], r["dropoff_longitude"])

\* r fails one of the seven predicates.
FailsAny(r) == FailsStage1(r) \/ TripMiles(r) <= 0

\* Number of rows of frame f that are input row r.
Occurrences(f, r) ==
  Cardinality({j \in 1..Len(f.rows) :
     /\ f.rows[j]["index"] = r["index"]
     /\ \A c \in Required \ {"pickup_datetime"} : f.rows[j][c] = r[c]
     /\ f.rows[j]["pickup_datetime"] = to_datetime(r["pickup_datetime"])})

\* Position in the input of the row with index label x.
Pos(x) == CHOOSE i \in 1..Len(input.rows) : input.rows[i]["index"] = x

InInputOrder(rows) ==
  \A i, j \in 1..Len(rows) :
    i < j => Pos(rows[i]["index"]) < Pos(rows[j]["index"])

HasDistance(r) ==
  /\ "distance_miles" \in DOMAIN r
  /\ ~isna(r["distance_miles"])

----------------------------------------------------------------------------
(* Properties.                                                             *)

\* C1: for every input with the required columns (the empty one and one
\* whose rows all fail the first stage included) the call returns
\* (cleaned, dropped), every input row is exactly once in exactly one of the
\* two, and len(cleaned) + len(dropped) = len(input).
C1_Partition ==
  (Finished /\ FullSchema) =>
    /\ Returned
    /\ \A i \in 1..Len(input.rows) :
         Occurrences(ret.cleaned, input.rows[i])
           + Occurrences(ret.dropped, input.rows[i]) = 1
    /\ Len(ret.cleaned.rows) + Len(ret.dropped.rows) = Len(input.rows)

\* C2: every row of the returned cleaned set has a parsed timestamp, four
\* present coordinates inside the bounds, fare_amount > 0, passenger_count
\* in 1..10 and distance_miles > 0.
C2_CleanedValid ==
  Returned =>
    \A i \in 1..Len(ret.cleaned.rows) :
      LET r == ret.cleaned.rows[i]
      IN /\ r["pickup_datetime"].tag = "ts"
         /\ \A c \in {"pickup_longitude", "dropoff_longitude"} :
              ~isna(r[c]) /\ bounds.LONG_MIN <= r[c] /\ r[c] <= bounds.LONG_MAX
         /\ \A c \in {"pickup_latitude", "dropoff_latitude"} :
              ~isna(r[c]) /\ bounds.LAT_MIN <= r[c] /\ r[c] <= bounds.LAT_MAX
         /\ gt(r["fare_amount"], 0)
         /\ le(1, r["passenger_count"]) /\ le(r["passenger_count"], 10)
         /\ gt(r["distance_miles"], 0)

\* C3: after the call the caller's dataset has the columns and the values it
\* had before the call.
C3_InputUnchanged == Returned => df = input

\* C4: cleaning the cleaned set again with the same bounds returns the same
\* cleaned set (rows, order, values) and an empty dropped set.
C4_Idempotent ==
  (call = 2 /\ Finished) =>
    /\ Returned
    /\ ret.cleaned = first.cleaned
    /\ ret.dropped.rows = <<>>

\* C5: when a required column is absent the call fails with an error,
\* returns nothing, and leaves the caller's dataset as it was.
C5_SchemaError ==
  (Finished /\ ~FullSchema) =>
    /\ pc = "error"
    /\ ret = NoResult
    /\ df = input

\* C6: a row is in dropped exactly when it fails one of the seven
\* predicates, and in cleaned exactly when it fails none: a row with fare 0,
\* no passenger or 11 passengers is sent to dropped, a row valid in every
\* field (a coordinate on a bound, fare 0.01, 10 passengers) to cleaned.
C6_Classification ==
  (Finished /\ FullSchema /\ call = 1) =>
    \A i \in 1..Len(input.rows) :
      LET r == input.rows[i]
      IN /\ FailsAny(r) =>
              Returned /\ Occurrences(ret.dropped, r) = 1
         /\ ~FailsAny(r) =>
              Returned /\ Occurrences(ret.cleaned, r) = 1
                       /\ Occurrences(ret.dropped, r) = 0

C8_Unparseable ==
  (Finished /\ FullSchema /\ call = 1) =>
    \A i \in 1..Len(input.rows) :
      LET r == input.rows[i]
          out == ret.cleaned.rows \o ret.dropped.rows
      IN IF isna(ParsedHour(r["pickup_datetime"].text))
           THEN /\ Returned
                /\ \E j \in 1..Len(ret.dropped.rows) :
                     /\ ret.dropped.rows[j]["index"] = r["index"]
                     /\ ret.dropped.rows[j]["pickup_datetime"] = NaT
                     /\ isna(ret.dropped.rows[j]["pickup_hour"])
           ELSE Returned =>
                  \E j \in 1..Len(out) :
                    /\ out[j]["index"] = r["index"]
                    /\ out[j]["pickup_hour"] = ParsedHour(r["pickup_datetime"].text)
                    /\ out[j]["pickup_hour"] \in 0..23

\* C9: a row that passes the six first-stage predicates and whose pickup
\* point is its dropoff point gets distance_miles = 0 and is returned in
\* dropped, never in cleaned.
C9_ZeroDistance ==
  FullSchema =>
    \A i \in 1..Len(input.rows) :
      LET r == input.rows[i]
      IN (~FailsStage1(r) /\ SamePoint(r)) =>
           /\ pc # "error"
           /\ Returned =>
                /\ \E j \in 1..Len(ret.dropped.rows) :
                     /\ ret.dropped.rows[j]["index"] = r["index"]
                     /\ ret.dropped.rows[j]["distance_miles"] = 0
                /\ Occurrences(ret.cleaned, r) = 0
                /\ Occurrences(ret.dropped, r) = 1

\* C9 witness: a call that returned on an input holding such a row.
C9_Witness ==
  /\ Returned
  /\ FullSchema
  /\ \E i \in 1..Len(input.rows) :
       ~FailsStage1(input.rows[i]) /\ SamePoint(input.rows[i])

\* C10: the distance is computed only for rows that passed the six
\* first-stage predicates; in the outputs distance_miles has a value on
\* every cleaned row and on every row the distance predicate dropped, and
\* none on a row dropped at the first stage.
C10_DistanceOnlyOnSurvivors ==
  /\ pc \in {"L77", "L85", "done"} =>
       \A i \in 1..Len(df_cleaned.rows) :
         /\ HasDistance(df_cleaned.rows[i])
         /\ ~FailsStage1(df_cleaned.rows[i])
  /\ Returned =>
       /\ \A i \in 1..Len(ret.cleaned.rows) : HasDistance(ret.cleaned.rows[i])
       /\ \A i \in 1..Len(ret.dropped.rows) :
            HasDistance(ret.dropped.rows[i]) <=> ~FailsStage1(ret.dropped.rows[i])

\* C10 witness: a returned dropped set with a first-stage drop, which has no
\* distance, and a distance drop, which has one.
C10_Witness ==
  /\ Returned
  /\ \E i, j \in 1..Len(ret.dropped.rows) :
       /\ FailsStage1(ret.dropped.rows[i])
       /\ ~HasDistance(ret.dropped.rows[i])
       /\ ~FailsStage1(ret.dropped.rows[j])
       /\ HasDistance(ret.dropped.rows[j])

====
